---- MODULE Spec2Model ----
(***************************************************************************)
(* Model of data_oriented/dod/dod/CollisionSolver.cpp: the narrow-phase   *)
(* SAT overlap test and the impulse / positional-correction resolver.     *)
(*                                                                         *)
(* float values are modelled as exact rationals <<num, den>> (den > 0,    *)
(* lowest terms); <<1,0>> and <<-1,0>> stand for numeric_limits max and   *)
(* lowest, <<0,0>> for the NaN a division 0/0 produces.  Rounding is not  *)
(* modelled.  Vec2 is <<x, y>> with rational components.                  *)
(***************************************************************************)
EXTENDS Integers, Sequences, FiniteSets, TLC

VARIABLES world, vel, acc, vel0, acc0, hist

vars == <<world, vel, acc, vel0, acc0, hist>>

(* ---------------------------------------------------------------------- *)
(* float arithmetic                                                        *)
(* ---------------------------------------------------------------------- *)
IAbs(i) ==
    IF i < 0 THEN -i ELSE i

RECURSIVE Gcd(_, _)
Gcd(a, b) ==
    IF b = 0 THEN a ELSE Gcd(b, a % b)

Rat(n, d) ==
    IF d = 0
    THEN <<(IF n > 0 THEN 1 ELSE IF n < 0 THEN -1 ELSE 0), 0>>
    ELSE LET g == Gcd(IAbs(n), IAbs(d))
             s == IF d < 0 THEN -1 ELSE 1
         IN  <<(s * n) \div g, (s * d) \div g>>

R(i) ==
    <<i, 1>>

IsNaN(a) ==
    a[1] = 0 /\ a[2] = 0

RAdd(a, b) ==
    IF a[2] = 0 \/ b[2] = 0
    THEN (IF IsNaN(a) \/ IsNaN(b) THEN <<0, 0>>
          ELSE IF a[2] = 0 /\ b[2] = 0 /\ a[1] # b[1] THEN <<0, 0>>
          ELSE IF a[2] = 0 THEN a ELSE b)
    ELSE LET g == Gcd(a[2], b[2])
         IN  Rat(a[1] * (b[2] \div g) + b[1] * (a[2] \div g), (a[2] \div g) * b[2])

RNeg(a) ==
    <<-a[1], a[2]>>

RSub(a, b) ==
    RAdd(a, RNeg(b))

RMul(a, b) ==
    LET g1 == Gcd(IAbs(a[1]), b[2])
        g2 == Gcd(IAbs(b[1]), a[2])
        n1 == IF g1 = 0 THEN a[1] ELSE a[1] \div g1
        d2 == IF g1 = 0 THEN b[2] ELSE b[2] \div g1
        n2 == IF g2 = 0 THEN b[1] ELSE b[1] \div g2
        d1 == IF g2 = 0 THEN a[2] ELSE a[2] \div g2
    IN  Rat(n1 * n2, d1 * d2)

RDiv(a, b) ==
    IF b[1] < 0 THEN RMul(a, <<-b[2], -b[1]>>) ELSE RMul(a, <<b[2], b[1]>>)

RLt(a, b) ==
    ~IsNaN(a) /\ ~IsNaN(b) /\ a[1] * b[2] < b[1] * a[2]

RLe(a, b) ==
    ~IsNaN(a) /\ ~IsNaN(b) /\ a[1] * b[2] <= b[1] * a[2]

RGt(a, b) ==
    RLt(b, a)

RGe(a, b) ==
    RLe(b, a)

RAbs(a) ==
    <<IAbs(a[1]), a[2]>>

RMin(a, b) ==
    IF RLt(b, a) THEN b ELSE a

ISqrt(n) ==
    CHOOSE k \in 0..n : k * k = n

RSqrt(a) ==
    <<ISqrt(a[1]), ISqrt(a[2])>>

FloatMax ==
    <<1, 0>>

FloatLowest ==
    <<-1, 0>>

(* ---------------------------------------------------------------------- *)
(* math::Vec2                                                              *)
(* ---------------------------------------------------------------------- *)
Vec2(x, y) ==
    <<x, y>>

ZeroVec ==
    <<R(0), R(0)>>

dot(a, b) ==
    RAdd(RMul(a[1], b[1]), RMul(a[2], b[2]))

VSub(a, b) ==
    <<RSub(a[1], b[1]), RSub(a[2], b[2])>>

VAdd(a, b) ==
    <<RAdd(a[1], b[1]), RAdd(a[2], b[2])>>

VScale(a, s) ==
    <<RMul(a[1], s), RMul(a[2], s)>>

\* the unit perpendicular of an edge; outward for the winding the shapes use
getNormal(e) ==
    LET len == RSqrt(dot(e, e))
    IN  <<RDiv(e[2], len), RDiv(RNeg(e[1]), len)>>

(* ---------------------------------------------------------------------- *)
(* CollisionSolver.cpp, anonymous namespace                                *)
(* ---------------------------------------------------------------------- *)
\* areBothStatic with the comparisons inverted
areBothStatic_inverted(massInverseA, massInverseB) ==
    massInverseA # R(0) /\ massInverseB # R(0)


areBothStatic(massInverseA, massInverseB) ==
    massInverseA = R(0) /\ massInverseB = R(0)
\* boundsOverlap with < for <= in the first test
boundsOverlap_touching(boundsA, boundsB) ==
    IF RLt(boundsA.bottomRight[1], boundsB.topLeft[1]) THEN FALSE
    ELSE IF RGe(boundsA.topLeft[1], boundsB.bottomRight[1]) THEN FALSE
    ELSE IF RLe(boundsA.bottomRight[2], boundsB.topLeft[2]) THEN FALSE
    ELSE IF RGe(boundsA.topLeft[2], boundsB.bottomRight[2]) THEN FALSE
    ELSE TRUE


boundsOverlap(boundsA, boundsB) ==
    IF RLe(boundsA.bottomRight[1], boundsB.topLeft[1]) THEN FALSE
    ELSE IF RGe(boundsA.topLeft[1], boundsB.bottomRight[1]) THEN FALSE
    ELSE IF RLe(boundsA.bottomRight[2], boundsB.topLeft[2]) THEN FALSE
    ELSE IF RGe(boundsA.topLeft[2], boundsB.bottomRight[2]) THEN FALSE
    ELSE TRUE

\* the range-for of project: i is the next vertex, min/max the running extremes
RECURSIVE projectLoop(_, _, _, _, _)
projectLoop(vertices, n, i, min, max) ==
    IF i > Len(vertices)
    THEN [min |-> min, max |-> max]
    ELSE LET proj == dot(n, vertices[i])
         IN  projectLoop(vertices, n, i + 1,
                         IF RLt(proj, min) THEN proj ELSE min,
                         IF RGt(proj, max) THEN proj ELSE max)

project(vertices, n) ==
    projectLoop(vertices, n, 1, FloatMax, FloatLowest)
\* line 89 with > and < for >= and <=
projectionsSeparated_strict(projA, projB) ==
    RGt(projB.min, projA.max) \/ RLt(projB.max, projA.min)

\* line 89: the projections on one normal do not overlap
projectionsSeparated(projA, projB) ==
    RGe(projB.min, projA.max) \/ RLe(projB.max, projA.min)

\* line 94: overlap size on one normal
penetration(projA, projB) ==
    RAbs(RSub(projA.max, projB.min))

\* the edge loop of checkOverlap; v1, v2 are the 1-based edge end points,
\* examined counts the edges whose normal has been tested so far
RECURSIVE checkOverlapLoop(_, _, _, _, _, _, _, _)
checkOverlapLoop(d, verticesA, verticesB, v1, v2, minPenetration, normal, examined) ==
    IF v2 > Len(verticesA)
    THEN [has_value |-> TRUE, depth |-> minPenetration, direction |-> normal,
          examined |-> examined]
    ELSE LET edge  == VSub(verticesA[v2], verticesA[v1])
             n     == getNormal(edge)
             projA == project(verticesA, n)
             projB0 == project(verticesB, n)
             projD == dot(n, d)
             projB == [min |-> RAdd(projB0.min, projD), max |-> RAdd(projB0.max, projD)]
             p     == penetration(projA, projB)
         IN  IF projectionsSeparated(projA, projB)
             THEN [has_value |-> FALSE, depth |-> R(0), direction |-> ZeroVec,
                   examined |-> examined + 1]
             ELSE IF RLt(p, minPenetration)
                  THEN checkOverlapLoop(d, verticesA, verticesB, v2, v2 + 1, p, n, examined + 1)
                  ELSE checkOverlapLoop(d, verticesA, verticesB, v2, v2 + 1,
                                        minPenetration, normal, examined + 1)

checkOverlap(posA, posB, verticesA, verticesB) ==
    checkOverlapLoop(VSub(posB, posA), verticesA, verticesB,
                     Len(verticesA), 1, FloatMax, ZeroVec, 0)

(* ---------------------------------------------------------------------- *)
(* CollisionSolver::solveCollision                                         *)
(* ---------------------------------------------------------------------- *)
\* line 122
resolveDepth(overlap1, overlap2) ==
    RMin(overlap1.depth, overlap2.depth)
\* line 123 with <= for <
resolveNormal_tieToFirst(overlap1, overlap2) ==
    IF RLe(overlap1.depth, overlap2.depth) THEN overlap1.direction ELSE overlap2.direction

\* line 123
resolveNormal(overlap1, overlap2) ==
    IF RLt(overlap1.depth, overlap2.depth) THEN overlap1.direction ELSE overlap2.direction
\* lines 125-132 with the division by the summed inverse mass left out
splitDepth_undivided(d, massInverseA, massInverseB, overlap1, overlap2) ==
    LET d1 == RMul(d, massInverseA)
        d2 == RSub(d, d1)
    IN  IF RGe(overlap1.depth, overlap2.depth)
        THEN [d1 |-> RMul(d1, R(-1)), d2 |-> RMul(d2, R(-1))]
        ELSE [d1 |-> d1, d2 |-> d2]

\* lines 125-132: the two signed shares of the depth
splitDepth(d, massInverseA, massInverseB, overlap1, overlap2) ==
    LET d1 == RDiv(RMul(d, massInverseA), RAdd(massInverseA, massInverseB))
        d2 == RSub(d, d1)
    IN  IF RGe(overlap1.depth, overlap2.depth)
        THEN [d1 |-> RMul(d1, R(-1)), d2 |-> RMul(d2, R(-1))]
        ELSE [d1 |-> d1, d2 |-> d2]
\* line 136 without the factor 2
impulse_inelastic(n, vRel, massInverseA, massInverseB) ==
    RDiv(RNeg(dot(n, vRel)), RAdd(massInverseA, massInverseB))

\* line 136
impulse(n, vRel, massInverseA, massInverseB) ==
    RDiv(RMul(RNeg(dot(n, vRel)), R(2)), RAdd(massInverseA, massInverseB))
\* line 138 with -= for +=
impulseVelocityA_minus(velocityA, n, j, massInverseA) ==
    VSub(velocityA, VScale(n, RMul(j, massInverseA)))

\* line 138
impulseVelocityA(velocityA, n, j, massInverseA) ==
    VAdd(velocityA, VScale(n, RMul(j, massInverseA)))
\* line 139 with += for -=
impulseVelocityB_plus(velocityB, n, j, massInverseB) ==
    VAdd(velocityB, VScale(n, RMul(j, massInverseB)))

\* line 139
impulseVelocityB(velocityB, n, j, massInverseB) ==
    VSub(velocityB, VScale(n, RMul(j, massInverseB)))
\* line 142 assigning instead of subtracting in place
accumulateA_assign(overlapAccumulatorA, n, d1) ==
    VSub(ZeroVec, VScale(n, d1))

\* line 142
accumulateA(overlapAccumulatorA, n, d1) ==
    VSub(overlapAccumulatorA, VScale(n, d1))

\* line 143
accumulateB(overlapAccumulatorB, n, d2) ==
    VAdd(overlapAccumulatorB, VScale(n, d2))

\* The result carries the four in/out parameters after the call, and, for
\* the properties below, the return that was taken (path), the probes'
\* results and the denominators of the divisions that were evaluated.
unchangedResult(path, velocityA, velocityB, overlapAccumulatorA, overlapAccumulatorB, r1, r2) ==
    [path |-> path, velocityA |-> velocityA, velocityB |-> velocityB,
     overlapAccumulatorA |-> overlapAccumulatorA,
     overlapAccumulatorB |-> overlapAccumulatorB,
     result1 |-> r1, result2 |-> r2,
     d |-> R(0), n |-> ZeroVec, d1 |-> R(0), d2 |-> R(0), denominators |-> {}]

noProbe ==
    [has_value |-> FALSE, depth |-> R(0), direction |-> ZeroVec, examined |-> 0]

\* lines 138-143 with d, n, the shares and j computed
applyResolution(massInverseA, massInverseB, velocityA, velocityB, overlapAccumulatorA, overlapAccumulatorB, overlap1, overlap2, d, n, split, j) ==
    [path |-> "hit",
     velocityA |-> impulseVelocityA(velocityA, n, j, massInverseA),
     velocityB |-> impulseVelocityB(velocityB, n, j, massInverseB),
     overlapAccumulatorA |-> accumulateA(overlapAccumulatorA, n, split.d1),
     overlapAccumulatorB |-> accumulateB(overlapAccumulatorB, n, split.d2),
     result1 |-> overlap1, result2 |-> overlap2,
     d |-> d, n |-> n, d1 |-> split.d1, d2 |-> split.d2,
     denominators |-> {RAdd(massInverseA, massInverseB)}]

\* lines 125-143 with d and n computed
resolveWith(massInverseA, massInverseB, velocityA, velocityB, overlapAccumulatorA, overlapAccumulatorB, overlap1, overlap2, d, n) ==
    applyResolution(massInverseA, massInverseB, velocityA, velocityB,
                    overlapAccumulatorA, overlapAccumulatorB, overlap1, overlap2, d, n,
                    splitDepth(d, massInverseA, massInverseB, overlap1, overlap2),
                    impulse(n, VSub(velocityA, velocityB), massInverseA, massInverseB))

\* lines 119-143: both probes have a value
resolveOverlaps(massInverseA, massInverseB, velocityA, velocityB, overlapAccumulatorA, overlapAccumulatorB, overlap1, overlap2) ==
    resolveWith(massInverseA, massInverseB, velocityA, velocityB,
                overlapAccumulatorA, overlapAccumulatorB, overlap1, overlap2,
                resolveDepth(overlap1, overlap2), resolveNormal(overlap1, overlap2))

\* lines 116-143 with the second probe's result
afterSecondProbe(massInverseA, massInverseB, velocityA, velocityB, overlapAccumulatorA, overlapAccumulatorB, result1, result2) ==
    IF ~result2.has_value
    THEN unchangedResult("miss2", velocityA, velocityB,
                         overlapAccumulatorA, overlapAccumulatorB, result1, result2)
    ELSE resolveOverlaps(massInverseA, massInverseB, velocityA, velocityB,
                         overlapAccumulatorA, overlapAccumulatorB, result1, result2)

\* lines 112-143 with the first probe's result
afterFirstProbe(massInverseA, massInverseB, posA, posB, verticesA, verticesB, velocityA, velocityB, overlapAccumulatorA, overlapAccumulatorB, result1) ==
    IF ~result1.has_value
    THEN unchangedResult("miss1", velocityA, velocityB,
                         overlapAccumulatorA, overlapAccumulatorB, result1, noProbe)
    ELSE afterSecondProbe(massInverseA, massInverseB, velocityA, velocityB,
                          overlapAccumulatorA, overlapAccumulatorB, result1,
                          checkOverlap(posB, posA, verticesB, verticesA))

solveCollision(massInverseA, massInverseB, boundsA, boundsB, posA, posB, verticesA, verticesB, velocityA, velocityB, overlapAccumulatorA, overlapAccumulatorB) ==
    IF areBothStatic(massInverseA, massInverseB) \/ ~boundsOverlap(boundsA, boundsB)
    THEN unchangedResult("guard", velocityA, velocityB,
                         overlapAccumulatorA, overlapAccumulatorB, noProbe, noProbe)
    ELSE afterFirstProbe(massInverseA, massInverseB, posA, posB, verticesA, verticesB,
                         velocityA, velocityB, overlapAccumulatorA, overlapAccumulatorB,
                         checkOverlap(posA, posB, verticesA, verticesB))

(* ---------------------------------------------------------------------- *)
(* The caller's data: bodies of one simulation step                        *)
(* ---------------------------------------------------------------------- *)
MaxCalls == 2

Bodies ==
    1..3

P(xn, xd, yn, yd) ==
    Vec2(Rat(xn, xd), Rat(yn, yd))

\* counter-clockwise rectangle with half extents hx, hy around the local origin
rectangle(hx, hy) ==
    << <<RNeg(hx), RNeg(hy)>>, <<hx, RNeg(hy)>>, <<hx, hy>>, <<RNeg(hx), hy>> >>

unitSquare ==
    rectangle(Rat(1, 2), Rat(1, 2))

\* the same square, vertex list starting at the next corner
unitSquareFromSecond ==
    << unitSquare[2], unitSquare[3], unitSquare[4], unitSquare[1] >>

\* right triangle with legs 4 and 3 on the local axes
triangle ==
    << P(0, 1, 0, 1), P(4, 1, 0, 1), P(0, 1, 3, 1) >>

RECURSIVE extent(_, _, _, _)
extent(vertices, c, i, best) ==
    IF i > Len(vertices) THEN best
    ELSE extent(vertices, c, i + 1,
                [min |-> IF RLt(vertices[i][c], best.min) THEN vertices[i][c] ELSE best.min,
                 max |-> IF RGt(vertices[i][c], best.max) THEN vertices[i][c] ELSE best.max])

\* the bounds a shape has when its local origin is at pos
boundsAt(pos, vertices) ==
    LET ex == extent(vertices, 1, 1, [min |-> FloatMax, max |-> FloatLowest])
        ey == extent(vertices, 2, 1, [min |-> FloatMax, max |-> FloatLowest])
    IN  [topLeft |-> <<RAdd(pos[1], ex.min), RAdd(pos[2], ey.min)>>,
         bottomRight |-> <<RAdd(pos[1], ex.max), RAdd(pos[2], ey.max)>>]

\* the same bounds grown by margin on every side
padded(b, margin) ==
    [topLeft |-> VSub(b.topLeft, <<margin, margin>>),
     bottomRight |-> VAdd(b.bottomRight, <<margin, margin>>)]

body(massInverse, pos, vertices) ==
    [massInverse |-> massInverse, pos |-> pos, vertices |-> vertices,
     bounds |-> boundsAt(pos, vertices)]

\* a body whose bounds were computed for another position or with a margin
bodyWithBounds(massInverse, pos, vertices, bounds) ==
    [massInverse |-> massInverse, pos |-> pos, vertices |-> vertices,
     bounds |-> bounds]

Worlds ==
    << \* 1: two overlapping unit squares, a third one resting on the first
       << body(R(1), P(0, 1, 0, 1), unitSquare),
          body(R(1), P(1, 2, 0, 1), unitSquare),
          body(R(1), P(0, 1, 1, 1), unitSquare) >>,
       \* 2: a movable square against two immovable ones
       << body(R(1), P(0, 1, 0, 1), unitSquare),
          body(R(0), P(1, 2, 0, 1), unitSquare),
          body(R(0), P(1, 2, -1, 2), unitSquare) >>,
       \* 3: a triangle, a square touching its hypotenuse, a square inside it
       << body(R(3), P(0, 1, 0, 1), triangle),
          body(R(1), P(5, 2, 2, 1), unitSquare),
          body(R(1), P(2, 1, 5, 4), unitSquare) >>,
       \* 4: bounds not recomputed after a move, and bounds with a margin
       << body(R(1), P(0, 1, 0, 1), unitSquare),
          bodyWithBounds(R(1), P(1, 2, 0, 1), unitSquare,
                         boundsAt(P(1, 1, 0, 1), unitSquare)),
          bodyWithBounds(R(2), P(0, 1, 1, 1), unitSquare,
                         padded(boundsAt(P(0, 1, 1, 1), unitSquare), Rat(1, 4))) >>,
       \* 5: corner overlaps of equal size in x and y
       << body(R(1), P(0, 1, 0, 1), rectangle(R(1), Rat(1, 2))),
          body(R(3), P(1, 1, -1, 2), unitSquare),
          body(R(1), P(-1, 1, 1, 2), unitSquareFromSecond) >> >>

Velocities ==
    { P(0, 1, 0, 1), P(1, 1, 0, 1), P(-1, 1, 2, 1) }

InitialVelocities ==
    { v \in [Bodies -> Velocities] :
        /\ v[3] # P(1, 1, 0, 1)
        /\ (v[1] = ZeroVec => v[2] = ZeroVec /\ v[3] = ZeroVec)
        /\ (v[1] = P(1, 1, 0, 1) => v[2] # v[1] /\ (v[2] = ZeroVec <=> v[3] = ZeroVec))
        /\ (v[1] = P(-1, 1, 2, 1) => v[2] = P(1, 1, 0, 1)) }

InitialAccumulators ==
    { [b \in Bodies |-> ZeroVec],
      [b \in Bodies |-> IF b = 1 THEN P(1, 4, -1, 1) ELSE ZeroVec] }

B(i) ==
    Worlds[world][i]

\* solveCollision called for the pair (a, b) on the given velocities and accumulators
call(a, b, v, o) ==
    solveCollision(B(a).massInverse, B(b).massInverse, B(a).bounds, B(b).bounds,
                   B(a).pos, B(b).pos, B(a).vertices, B(b).vertices,
                   v[a], v[b], o[a], o[b])

Init ==
    /\ world \in 1..Len(Worlds)
    /\ vel \in InitialVelocities
    /\ vel0 = vel
    /\ acc \in InitialAccumulators
    /\ (acc[1] # ZeroVec => vel[1] = P(1, 1, 0, 1) /\ vel[2] = ZeroVec)
    /\ acc0 = acc
    /\ hist = << >>

\* one iteration of the caller's pair loop
Solve(a, b) ==
    /\ a # b
    /\ Len(hist) < MaxCalls
    /\ \E r \in {call(a, b, vel, acc)} :
           /\ vel' = [vel EXCEPT ![a] = r.velocityA, ![b] = r.velocityB]
           /\ acc' = [acc EXCEPT ![a] = r.overlapAccumulatorA,
                                 ![b] = r.overlapAccumulatorB]
           /\ hist' = Append(hist, [a |-> a, b |-> b, vel |-> vel, acc |-> acc, r |-> r])
    /\ UNCHANGED <<world, vel0, acc0>>

Next ==
    \E a, b \in Bodies : Solve(a, b)

Spec ==
    Init /\ [][Next]_vars

(* ---------------------------------------------------------------------- *)
(* Reading the calls made so far                                           *)
(* ---------------------------------------------------------------------- *)
Calls ==
    1..Len(hist)

\* velocities and accumulators right after the k-th call
VelAfter(k) ==
    IF k < Len(hist) THEN hist[k + 1].vel ELSE vel

AccAfter(k) ==
    IF k < Len(hist) THEN hist[k + 1].acc ELSE acc

\* the k-th call changed neither body's velocity nor accumulator
NoMutation(k) ==
    /\ VelAfter(k) = hist[k].vel
    /\ AccAfter(k) = hist[k].acc

\* the open boxes have no common point, written side by side
BoundsDisjoint(p, q) ==
    \/ RLe(p.bottomRight[1], q.topLeft[1])
    \/ RLe(q.bottomRight[1], p.topLeft[1])
    \/ RLe(p.bottomRight[2], q.topLeft[2])
    \/ RLe(q.bottomRight[2], p.topLeft[2])

(* C1: whenever solveCollision is called with bounds that do not overlap   *)
(* (touching sides included), both velocities and both accumulators are    *)
(* the same after the call as before it.                                   *)
C1_DisjointBoundsNoMutation ==
    \A k \in Calls :
        BoundsDisjoint(B(hist[k].a).bounds, B(hist[k].b).bounds) => NoMutation(k)

\* a call on bounds that touch on a vertical side while the shapes overlap
\* and the bodies move relative to each other
C1_Witness ==
    \E k \in Calls :
        /\ B(hist[k].a).bounds.bottomRight[1] = B(hist[k].b).bounds.topLeft[1]
        /\ ~BoundsDisjoint(boundsAt(B(hist[k].a).pos, B(hist[k].a).vertices),
                           boundsAt(B(hist[k].b).pos, B(hist[k].b).vertices))
        /\ hist[k].vel[hist[k].a] # hist[k].vel[hist[k].b]
        /\ B(hist[k].a).massInverse # R(0)
        /\ NoMutation(k)

(* C2: a call with both inverse masses zero changes neither velocity nor  *)
(* accumulator, and no call evaluates a division by                        *)
(* massInverseA + massInverseB with that sum equal to zero.                *)
C2_StaticPairGuarded ==
    \A k \in Calls :
        /\ (B(hist[k].a).massInverse = R(0) /\ B(hist[k].b).massInverse = R(0))
               => NoMutation(k)
        /\ \A den \in hist[k].r.denominators : den # R(0)

\* a call on two immovable bodies whose bounds overlap, after a call that
\* did divide (one body immovable, the other not)
C2_Witness ==
    \E k, m \in Calls :
        /\ B(hist[k].a).massInverse = R(0)
        /\ B(hist[k].b).massInverse = R(0)
        /\ ~BoundsDisjoint(B(hist[k].a).bounds, B(hist[k].b).bounds)
        /\ hist[k].vel[hist[k].a] # hist[k].vel[hist[k].b]
        /\ NoMutation(k)
        /\ hist[m].r.denominators # {}
        /\ B(hist[m].b).massInverse = R(0)

(* ---------------------------------------------------------------------- *)
VDelta(after, before) ==
    VSub(after, before)

\* deltas of the k-th call as made, and of the same call with the two
\* bodies passed in the other argument order
SwappedCall(k) ==
    call(hist[k].b, hist[k].a, hist[k].vel, hist[k].acc)

Antiparallel(u, w) ==
    /\ RSub(RMul(u[1], w[2]), RMul(u[2], w[1])) = R(0)
    /\ RLe(dot(u, w), R(0))

(* C3: for every call, passing the two bodies in the other argument order  *)
(* from the same state gives each body the same velocity and accumulator   *)
(* after the call, and the two accumulator deltas and the two velocity     *)
(* deltas are opposite in direction.                                       *)
C3_SwapSymmetric ==
    \A k \in Calls :
        LET h == hist[k]
            s == SwappedCall(k)
        IN  /\ h.r.velocityA = s.velocityB
            /\ h.r.velocityB = s.velocityA
            /\ h.r.overlapAccumulatorA = s.overlapAccumulatorB
            /\ h.r.overlapAccumulatorB = s.overlapAccumulatorA
            /\ Antiparallel(VDelta(h.r.velocityA, h.vel[h.a]),
                            VDelta(h.r.velocityB, h.vel[h.b]))
            /\ Antiparallel(VDelta(h.r.overlapAccumulatorA, h.acc[h.a]),
                            VDelta(h.r.overlapAccumulatorB, h.acc[h.b]))

(* ---------------------------------------------------------------------- *)
Momentum(v, a, b) ==
    VAdd(<<RDiv(v[a][1], B(a).massInverse), RDiv(v[a][2], B(a).massInverse)>>,
         <<RDiv(v[b][1], B(b).massInverse), RDiv(v[b][2], B(b).massInverse)>>)

KineticEnergy(v, a, b) ==
    RDiv(RAdd(RDiv(dot(v[a], v[a]), B(a).massInverse),
              RDiv(dot(v[b], v[b]), B(b).massInverse)), R(2))

(* C4: every resolved collision between two bodies of non-zero inverse     *)
(* mass leaves the pair's total momentum and total kinetic energy          *)
(* unchanged.                                                              *)
C4_MomentumEnergyConserved ==
    \A k \in Calls :
        LET h == hist[k]
        IN  (h.r.path = "hit" /\ B(h.a).massInverse # R(0) /\ B(h.b).massInverse # R(0))
            => /\ Momentum(VelAfter(k), h.a, h.b) = Momentum(h.vel, h.a, h.b)
               /\ KineticEnergy(VelAfter(k), h.a, h.b) = KineticEnergy(h.vel, h.a, h.b)

\* a resolved collision of two bodies of different finite mass that changed
\* both velocities
C4_Witness ==
    \E k \in Calls :
        /\ hist[k].r.path = "hit"
        /\ B(hist[k].a).massInverse # R(0)
        /\ B(hist[k].b).massInverse # R(0)
        /\ B(hist[k].a).massInverse # B(hist[k].b).massInverse
        /\ VelAfter(k)[hist[k].a] # hist[k].vel[hist[k].a]
        /\ VelAfter(k)[hist[k].b] # hist[k].vel[hist[k].b]

(* ---------------------------------------------------------------------- *)
\* what a call for the pair (a, b) of world w adds to the accumulators of a
\* and b when it is made on its own, from zero accumulators and bodies at
\* rest; it is a table over the pairs, so it is evaluated once per pair
PairContribution ==
    [w \in 1..Len(Worlds), a \in Bodies, b \in Bodies |->
        IF a = b THEN <<ZeroVec, ZeroVec>>
        ELSE LET r0 == solveCollision(
                     Worlds[w][a].massInverse, Worlds[w][b].massInverse,
                     Worlds[w][a].bounds, Worlds[w][b].bounds,
                     Worlds[w][a].pos, Worlds[w][b].pos,
                     Worlds[w][a].vertices, Worlds[w][b].vertices,
                     ZeroVec, ZeroVec, ZeroVec, ZeroVec)
             IN  <<r0.overlapAccumulatorA, r0.overlapAccumulatorB>>]

Contribution(k, i) ==
    IF i = hist[k].a THEN PairContribution[world, hist[k].a, hist[k].b][1]
    ELSE IF i = hist[k].b THEN PairContribution[world, hist[k].a, hist[k].b][2]
    ELSE ZeroVec

RECURSIVE SumContributions(_, _)
SumContributions(k, i) ==
    IF k = 0 THEN acc0[i]
    ELSE VAdd(SumContributions(k - 1, i), Contribution(k, i))

\* the accumulators after making the recorded calls in the order given by
\* order (a sequence of indices into hist), starting from the step's start
RECURSIVE RunInOrder(_, _, _, _)
RunInOrder(order, i, v, o) ==
    IF i > Len(order) THEN o
    ELSE LET h == hist[order[i]]
             r == call(h.a, h.b, v, o)
         IN  RunInOrder(order, i + 1,
                        [v EXCEPT ![h.a] = r.velocityA, ![h.b] = r.velocityB],
                        [o EXCEPT ![h.a] = r.overlapAccumulatorA,
                                  ![h.b] = r.overlapAccumulatorB])

Reversed ==
    [k \in Calls |-> Len(hist) + 1 - k]

(* C5: each body's accumulator equals its value at the start of the step   *)
(* plus the sum, over the calls made so far, of what a call for that pair  *)
(* contributes on its own from zero accumulators (a sum that does not      *)
(* depend on the order of the calls), and making the same calls in the     *)
(* reverse order ends with the same accumulators.                          *)
C5_AccumulatorAdditive ==
    /\ \A i \in Bodies : acc[i] = SumContributions(Len(hist), i)
    /\ RunInOrder(Reversed, 1, vel0, acc0) = acc

\* two resolved collisions sharing a body were processed, the accumulators
\* did not start at zero, and the other order ends with other velocities
C5_Witness ==
    /\ Len(hist) >= 2
    /\ hist[1].r.path = "hit"
    /\ hist[2].r.path = "hit"
    /\ {hist[1].a, hist[1].b} # {hist[2].a, hist[2].b}
    /\ acc0[1] # ZeroVec
    /\ acc[1] # acc0[1]
    /\ 1 \in {hist[1].a, hist[1].b} \cap {hist[2].a, hist[2].b}
    /\ LET h == hist[2]
           r == call(h.a, h.b, vel0, acc0)
       IN  r.velocityA # VelAfter(2)[h.a] \/ r.velocityB # VelAfter(2)[h.b]

(* ---------------------------------------------------------------------- *)
\* the call is the scenario of two unit squares at (0,0) and (0.5,0) with
\* bounds that fit them
UnitSquaresCall(k) ==
    LET ba == B(hist[k].a)
        bb == B(hist[k].b)
    IN  /\ ba.vertices = unitSquare /\ bb.vertices = unitSquare
        /\ ba.pos = P(0, 1, 0, 1) /\ bb.pos = P(1, 2, 0, 1)
        /\ ba.bounds = boundsAt(ba.pos, ba.vertices)
        /\ bb.bounds = boundsAt(bb.pos, bb.vertices)

RestingEqualSquares(k) ==
    /\ UnitSquaresCall(k)
    /\ B(hist[k].a).massInverse = R(1) /\ B(hist[k].b).massInverse = R(1)
    /\ hist[k].vel[hist[k].a] = ZeroVec /\ hist[k].vel[hist[k].b] = ZeroVec
    /\ hist[k].acc[hist[k].a] = ZeroVec /\ hist[k].acc[hist[k].b] = ZeroVec

SquaresResolved(k, share) ==
    /\ hist[k].r.path = "hit"
    /\ hist[k].r.n \in {P(1, 1, 0, 1), P(-1, 1, 0, 1)}
    /\ hist[k].r.d = Rat(1, 2)
    /\ AccAfter(k)[hist[k].a] = <<RNeg(share), R(0)>>
    /\ AccAfter(k)[hist[k].b] = <<share, R(0)>>
    /\ VelAfter(k)[hist[k].a] = ZeroVec
    /\ VelAfter(k)[hist[k].b] = ZeroVec

(* C6 as stated: the two resting unit squares of equal mass collide on the *)
(* x axis with depth 0.5 and each accumulator receives 0.125, in opposite  *)
(* x directions; the velocities stay zero.                                 *)
C6_SplitEighth ==
    \A k \in Calls : RestingEqualSquares(k) => SquaresResolved(k, Rat(1, 8))

(* C6 amended: the same, with each accumulator receiving 0.25 (half of the *)
(* depth 0.5), A towards -x and B towards +x.                              *)
C6_SplitQuarter ==
    \A k \in Calls : RestingEqualSquares(k) => SquaresResolved(k, Rat(1, 4))

C6_Witness ==
    \E k \in Calls : RestingEqualSquares(k) /\ AccAfter(k)[hist[k].b] # ZeroVec

(* C7: the unit square A with inverse mass 1 and velocity (1,0) against    *)
(* the immovable unit square B at (0.5,0) with velocity (0,0): A leaves    *)
(* with velocity (-1,0), B keeps velocity (0,0) and its accumulator, and   *)
(* A's accumulator receives the whole depth 0.5 towards -x.                *)
C7_BounceOffStatic ==
    \A k \in Calls :
        LET h == hist[k]
        IN  (/\ UnitSquaresCall(k)
             /\ B(h.a).massInverse = R(1) /\ B(h.b).massInverse = R(0)
             /\ h.vel[h.a] = P(1, 1, 0, 1) /\ h.vel[h.b] = ZeroVec)
            => /\ h.r.path = "hit"
               /\ VelAfter(k)[h.a] = P(-1, 1, 0, 1)
               /\ VelAfter(k)[h.b] = ZeroVec
               /\ AccAfter(k)[h.b] = h.acc[h.b]
               /\ AccAfter(k)[h.a] = VAdd(h.acc[h.a], P(-1, 2, 0, 1))

C7_Witness ==
    \E k \in Calls :
        /\ UnitSquaresCall(k)
        /\ B(hist[k].a).massInverse = R(1) /\ B(hist[k].b).massInverse = R(0)
        /\ hist[k].vel[hist[k].a] = P(1, 1, 0, 1) /\ hist[k].vel[hist[k].b] = ZeroVec
        /\ VelAfter(k)[hist[k].a] = P(-1, 1, 0, 1)

(* ---------------------------------------------------------------------- *)
(* The separating-axis test written on sets, edge by edge                  *)
(* ---------------------------------------------------------------------- *)
\* normal of the k-th edge in the order checkOverlap visits them
EdgeNormal(vertices, k) ==
    getNormal(VSub(vertices[k], vertices[IF k = 1 THEN Len(vertices) ELSE k - 1]))

Interval(vertices, n, shift) ==
    LET s == { RAdd(dot(n, vertices[i]), shift) : i \in 1..Len(vertices) }
    IN  [min |-> CHOOSE x \in s : \A y \in s : RLe(x, y),
         max |-> CHOOSE x \in s : \A y \in s : RLe(y, x)]

\* on the normal of own's k-th edge the other polygon's interval is disjoint
\* from own's interval or merely touches it
SeparatedOnEdge(own, other, k) ==
    LET n   == EdgeNormal(B(own).vertices, k)
        io  == Interval(B(own).vertices, n, R(0))
        ix  == Interval(B(other).vertices, n, dot(n, VSub(B(other).pos, B(own).pos)))
    IN  RGe(ix.min, io.max) \/ RLe(ix.max, io.min)

SeparatingEdges(own, other) ==
    { k \in 1..Len(B(own).vertices) : SeparatedOnEdge(own, other, k) }

FirstOf(S) ==
    CHOOSE k \in S : \A m \in S : k <= m

(* C8: a call for which some edge normal of either polygon separates the   *)
(* two projections (touching included) changes no velocity and no          *)
(* accumulator, and a probe that reports no overlap has tested the edges   *)
(* up to the first separating one and no further.                          *)
C8_SeparatingAxisNoMutation ==
    \A k \in Calls :
        LET h  == hist[k]
            sa == SeparatingEdges(h.a, h.b)
            sb == SeparatingEdges(h.b, h.a)
        IN  /\ (sa # {} \/ sb # {}) => NoMutation(k) /\ h.r.path # "hit"
            /\ (h.r.path # "guard" /\ sa # {})
                   => h.r.path = "miss1" /\ h.r.result1.examined = FirstOf(sa)
            /\ (h.r.path # "guard" /\ sa = {} /\ sb # {})
                   => /\ h.r.path = "miss2"
                      /\ h.r.result1.examined = Len(B(h.a).vertices)
                      /\ h.r.result2.examined = FirstOf(sb)
            /\ h.r.path = "miss1" => sa # {}
            /\ h.r.path = "miss2" => sb # {}

\* the probes ran on moving bodies whose bounds overlap and found a
\* separating edge that is not the first edge tested, where the polygons
\* merely touch
C8_Witness ==
    \E k \in Calls :
        LET h  == hist[k]
            sa == SeparatingEdges(h.a, h.b)
        IN  /\ h.r.path = "miss1"
            /\ FirstOf(sa) > 1
            /\ h.vel[h.a] # h.vel[h.b]
            /\ LET n  == EdgeNormal(B(h.a).vertices, FirstOf(sa))
                   io == Interval(B(h.a).vertices, n, R(0))
                   ix == Interval(B(h.b).vertices, n, dot(n, VSub(B(h.b).pos, B(h.a).pos)))
               IN  ix.min = io.max

(* ---------------------------------------------------------------------- *)
\* depth a probe of own against other reports: the smallest, over own's
\* edges, of own.max - other.min on the edge normal
EdgeDepth(own, other, k) ==
    LET n   == EdgeNormal(B(own).vertices, k)
        io  == Interval(B(own).vertices, n, R(0))
        ix  == Interval(B(other).vertices, n, dot(n, VSub(B(other).pos, B(own).pos)))
    IN  RSub(io.max, ix.min)

ProbeDepth(own, other) ==
    LET s == { EdgeDepth(own, other, k) : k \in 1..Len(B(own).vertices) }
    IN  CHOOSE x \in s : \A y \in s : RLe(x, y)

\* with own moved by mo and other moved by mx, the projections on n overlap
OverlapOnAfter(n, own, other, mo, mx) ==
    LET io == Interval(B(own).vertices, n, dot(n, VAdd(B(own).pos, mo)))
        ix == Interval(B(other).vertices, n, dot(n, VAdd(B(other).pos, mx)))
    IN  RLt(ix.min, io.max) /\ RGt(ix.max, io.min)

Share(d, m, a, b) ==
    RDiv(RMul(d, m), RAdd(B(a).massInverse, B(b).massInverse))

(* C9: in every resolved collision the depth d is the smaller of the two   *)
(* probe depths, the normal n is an edge normal of the polygon whose probe *)
(* reported it (B's on equal depths), A's accumulator increment is n       *)
(* scaled by d*massInverseA/(massInverseA+massInverseB) and B's is n       *)
(* scaled by d*massInverseB/(massInverseA+massInverseB) with the opposite  *)
(* sign, and the signs are such that after both increments the two         *)
(* polygons no longer overlap on n.                                        *)
C9_CorrectionPushesApart ==
    \A k \in Calls :
        LET h    == hist[k]
            da   == ProbeDepth(h.a, h.b)
            db   == ProbeDepth(h.b, h.a)
            d    == IF RLt(db, da) THEN db ELSE da
            n    == h.r.n
            incA == VDelta(AccAfter(k)[h.a], h.acc[h.a])
            incB == VDelta(AccAfter(k)[h.b], h.acc[h.b])
            sA   == Share(d, B(h.a).massInverse, h.a, h.b)
            sB   == Share(d, B(h.b).massInverse, h.a, h.b)
        IN  h.r.path = "hit" =>
            /\ h.r.d = d
            /\ RAdd(sA, sB) = d
            /\ IF RLt(da, db)
               THEN /\ \E e \in 1..Len(B(h.a).vertices) :
                          EdgeNormal(B(h.a).vertices, e) = n /\ EdgeDepth(h.a, h.b, e) = d
                    /\ incA = VScale(n, RNeg(sA))
                    /\ incB = VScale(n, sB)
               ELSE /\ \E e \in 1..Len(B(h.b).vertices) :
                          EdgeNormal(B(h.b).vertices, e) = n /\ EdgeDepth(h.b, h.a, e) = d
                    /\ incA = VScale(n, sA)
                    /\ incB = VScale(n, RNeg(sB))
            /\ OverlapOnAfter(n, h.a, h.b, ZeroVec, ZeroVec)
            /\ ~OverlapOnAfter(n, h.a, h.b, incA, incB)

\* two resolved collisions were seen, one won by A's probe between bodies
\* of unequal mass and one with equal depths, both moving both accumulators
C9_Witness ==
    \E k, m \in Calls :
        /\ hist[k].r.path = "hit" /\ hist[m].r.path = "hit"
        /\ RLt(hist[k].r.result1.depth, hist[k].r.result2.depth)
        /\ hist[m].r.result2.depth = hist[m].r.result1.depth
        /\ B(hist[k].a).massInverse # B(hist[k].b).massInverse
        /\ AccAfter(k)[hist[k].a] # hist[k].acc[hist[k].a]
        /\ AccAfter(k)[hist[k].b] # hist[k].acc[hist[k].b]
        /\ AccAfter(m)[hist[m].a] # hist[m].acc[hist[m].a]
        /\ AccAfter(m)[hist[m].b] # hist[m].acc[hist[m].b]

(* ---------------------------------------------------------------------- *)
NormalSpeed(v, a, b, n) ==
    dot(n, VSub(v[a], v[b]))

(* C10: every resolved collision, approaching or separating, replaces the  *)
(* normal component of the relative velocity by its negative; and when the *)
(* same pair is resolved twice in a row, both velocities are back at their *)
(* values before the first of the two calls while each accumulator has     *)
(* received the first call's increment twice.                              *)
C10_ImpulseIsInvolution ==
    \A k \in Calls :
        LET h == hist[k]
        IN  h.r.path = "hit" =>
            /\ NormalSpeed(VelAfter(k), h.a, h.b, h.r.n)
                   = RNeg(NormalSpeed(h.vel, h.a, h.b, h.r.n))
            /\ (k + 1 \in Calls /\ hist[k + 1].a = h.a /\ hist[k + 1].b = h.b)
                   => /\ VelAfter(k + 1) = h.vel
                      /\ \A i \in Bodies :
                             VDelta(AccAfter(k + 1)[i], AccAfter(k)[i])
                                 = VDelta(AccAfter(k)[i], h.acc[i])

\* the same pair resolved twice in a row, separating at the second call,
\* with the first call having changed velocities and accumulators
C10_Witness ==
    \E k \in Calls :
        /\ k + 1 \in Calls
        /\ hist[k].r.path = "hit"
        /\ hist[k + 1].a = hist[k].a /\ hist[k + 1].b = hist[k].b
        /\ VelAfter(k) # hist[k].vel
        /\ AccAfter(k) # hist[k].acc
        /\ VelAfter(k + 1) = hist[k].vel
        /\ \E i \in Calls :
               /\ hist[i].r.path = "hit"
               /\ RGt(dot(VSub(B(hist[i].b).pos, B(hist[i].a).pos),
                          VSub(hist[i].vel[hist[i].b], hist[i].vel[hist[i].a])), R(0))
               /\ VelAfter(i) # hist[i].vel

====
